---- MODULE Spec2Model ----
(***************************************************************************)
(* The counter / todo-list store of statefolio, as implemented by the five *)
(* id-keyed screens: Context (reducer), Zustand, MobX, Recoil (atoms) and  *)
(* Redux Toolkit (slices).  One screen is mounted per behaviour; the four  *)
(* operations act on the store of that screen.  Date.now() is the variable *)
(* `now`, which never decreases.                                           *)
(***************************************************************************)
EXTENDS Integers, Sequences, FiniteSets, TLC

\* ------------------------------------------------------------------ bounds
MaxInc == 2
MaxDec == 2
MaxAdd == 2
MaxRem == 2
MaxClock == 2

\* ------------------------------------------------------------------ inputs
Screens == {"context", "zustand", "mobx", "recoil", "redux"}

Texts == {"buy milk", "walk dog"}

VARIABLES
    screen,   \* the mounted screen (which store implementation is in use)
    store,    \* the store of the mounted screen, in that implementation's shape
    now,      \* the value Date.now() returns
    nInc,     \* observation: number of increment calls so far
    nDec,     \* observation: number of decrement calls so far
    nAdd,     \* observation: number of addTodo calls so far
    nRem,     \* observation: number of removeTodo calls so far
    nMiss,    \* observation: number of removeTodo calls whose id matched no entry
    last,     \* observation: the last operation, its argument and the store before it
    scen,     \* observation: how far the trace so far follows the concrete scenario
    todosObj, \* the array object in the store's todos field: its identity and version
    seen,     \* observation: how many notifications the screen (the observer) got
    newTodo,  \* BaseScreen: the content of the text input
    mounted,  \* whether the screen is mounted
    memo,     \* the cache of the derived statistics (computed / selector / useMemo)
    persist,  \* the persisted Zustand store: storage content and requests in flight
    bundle,   \* the bundle-size test: its position, the files and the measurements
    view,     \* the rendered rows, whether a render is due, the row pressed last
    perf      \* the performance test: its position, the render counter, the results

vars == <<screen, store, now, nInc, nDec, nAdd, nRem, nMiss, last, scen,
          todosObj, seen, newTodo, mounted, memo, persist, bundle, view, perf>>

\* ------------------------------------------------- Date.now().toString()
Digits == <<"0", "1", "2", "3", "4", "5", "6", "7", "8", "9">>

RECURSIVE toString(_)
toString(n) ==
    IF n < 10 THEN Digits[n + 1]
    ELSE toString(n \div 10) \o Digits[(n % 10) + 1]

DateNow == now

Ids == {toString(t) : t \in 0..MaxClock}

\* Mutation: removal by findIndex + splice(index, 1); splice(-1, 1) on a miss
\* removes the last entry.
filterOut_splice(todos, id) ==
    LET hits == {i \in 1..Len(todos) : todos[i].id = id}
        idx  == IF hits = {} THEN Len(todos)
                ELSE CHOOSE i \in hits : \A j \in hits : i <= j
    IN  [i \in 1..(IF Len(todos) = 0 THEN 0 ELSE Len(todos) - 1) |->
            IF i < idx THEN todos[i] ELSE todos[i + 1]]

\* Mutation: removal of the first entry carrying the id only.
filterOut_firstOnly(todos, id) ==
    LET hits == {i \in 1..Len(todos) : todos[i].id = id}
    IN  IF hits = {} THEN todos
        ELSE LET idx == CHOOSE i \in hits : \A j \in hits : i <= j
             IN  [i \in 1..(Len(todos) - 1) |->
                     IF i < idx THEN todos[i] ELSE todos[i + 1]]

\* todos.filter((todo) => todo.id !== id)
filterOut(todos, id) == SelectSeq(todos, LAMBDA todo : todo.id # id)

\* ------------------------------------------------------- Context: reducer
\* Mutation: INCREMENT and DECREMENT return { count } without spreading state.
reducer_noSpread(state, action) ==
    CASE action.type = "INCREMENT" -> [count |-> state.count + 1]
      [] action.type = "DECREMENT" -> [count |-> state.count - 1]
      [] action.type = "ADD_TODO" ->
            [state EXCEPT !.todos =
                Append(state.todos, [id |-> toString(DateNow), text |-> action.text])]
      [] action.type = "REMOVE_TODO" ->
            [state EXCEPT !.todos = filterOut(state.todos, action.id)]
      [] OTHER -> state

\* Mutation: REMOVE_TODO spreads the initial state instead of the current one.
reducer_spreadInitial(state, action) ==
    CASE action.type = "INCREMENT" -> [state EXCEPT !.count = state.count + 1]
      [] action.type = "DECREMENT" -> [state EXCEPT !.count = state.count - 1]
      [] action.type = "ADD_TODO" ->
            [state EXCEPT !.todos =
                Append(state.todos, [id |-> toString(DateNow), text |-> action.text])]
      [] action.type = "REMOVE_TODO" ->
            [count |-> 0, todos |-> filterOut(state.todos, action.id)]
      [] OTHER -> state

reducer(state, action) ==
    CASE action.type = "INCREMENT" -> [state EXCEPT !.count = state.count + 1]
      [] action.type = "DECREMENT" -> [state EXCEPT !.count = state.count - 1]
      [] action.type = "ADD_TODO" ->
            [state EXCEPT !.todos =
                Append(state.todos, [id |-> toString(DateNow), text |-> action.text])]
      [] action.type = "REMOVE_TODO" ->
            [state EXCEPT !.todos = filterOut(state.todos, action.id)]
      [] OTHER -> state

\* ------------------------------------------------------- Zustand: useStore
\* set(fn): the partial state fn returns is merged into the store's state.
zustand_set(state, partial) ==
    [k \in DOMAIN state |-> IF k \in DOMAIN partial THEN partial[k] ELSE state[k]]

zustand_increment(state) == zustand_set(state, [count |-> state.count + 1])

\* Mutation: decrement clamped at 0.
zustand_decrement_clamped(state) ==
    zustand_set(state, [count |-> IF state.count > 0 THEN state.count - 1 ELSE 0])

zustand_decrement(state) == zustand_set(state, [count |-> state.count - 1])

\* Mutation: a store that validates the text and ignores an empty one.
zustand_addTodo_nonEmpty(state, text) ==
    IF text = ""
    THEN state
    ELSE zustand_set(state,
            [todos |-> Append(state.todos, [id |-> toString(DateNow), text |-> text])])

zustand_addTodo(state, text) ==
    zustand_set(state,
        [todos |-> Append(state.todos, [id |-> toString(DateNow), text |-> text])])

zustand_removeTodo(state, id) ==
    zustand_set(state, [todos |-> filterOut(state.todos, id)])

\* ------------------------------------------------------- MobX: class Store
mobx_increment(this) == [this EXCEPT !.count = @ + 1]

mobx_decrement(this) == [this EXCEPT !.count = @ - 1]

\* Mutation: unshift instead of push.
mobx_addTodo_unshift(this, text) ==
    [this EXCEPT !.todos = <<[id |-> toString(DateNow), text |-> text]>> \o @]

mobx_addTodo(this, text) ==
    [this EXCEPT !.todos = Append(@, [id |-> toString(DateNow), text |-> text])]

mobx_removeTodo(this, id) == [this EXCEPT !.todos = filterOut(this.todos, id)]

\* ------------------------------------------------------- Recoil: two atoms
recoil_increment(atoms) == [atoms EXCEPT !.counterState = @ + 1]

recoil_decrement(atoms) == [atoms EXCEPT !.counterState = @ - 1]

\* Mutation: the two fields of the new entry swapped.
recoil_addTodo_swapped(atoms, text) ==
    [atoms EXCEPT !.todosState =
        Append(@, [id |-> text, text |-> toString(DateNow)])]

recoil_addTodo(atoms, text) ==
    [atoms EXCEPT !.todosState =
        Append(@, [id |-> toString(DateNow), text |-> text])]

recoil_removeTodo(atoms, id) ==
    [atoms EXCEPT !.todosState = filterOut(@, id)]

\* ------------------------------------------------------- Redux: two slices
\* Mutation: decrement copied from increment, the sign left unchanged.
counterSlice_sameSign(state, action) ==
    CASE action.type = "counter/increment" -> [state EXCEPT !.value = @ + 1]
      [] action.type = "counter/decrement" -> [state EXCEPT !.value = @ + 1]
      [] OTHER -> state

counterSlice(state, action) ==
    CASE action.type = "counter/increment" -> [state EXCEPT !.value = @ + 1]
      [] action.type = "counter/decrement" -> [state EXCEPT !.value = @ - 1]
      [] OTHER -> state

\* Mutation: removeTodo keeps the entries with the id and drops the others.
todosSlice_keepMatching(state, action) ==
    CASE action.type = "todos/addTodo" ->
            [state EXCEPT !.items =
                Append(@, [id |-> toString(DateNow), text |-> action.payload])]
      [] action.type = "todos/removeTodo" ->
            [state EXCEPT !.items =
                SelectSeq(@, LAMBDA todo : todo.id = action.payload)]
      [] OTHER -> state

todosSlice(state, action) ==
    CASE action.type = "todos/addTodo" ->
            [state EXCEPT !.items =
                Append(@, [id |-> toString(DateNow), text |-> action.payload])]
      [] action.type = "todos/removeTodo" ->
            [state EXCEPT !.items = filterOut(state.items, action.payload)]
      [] OTHER -> state

\* configureStore({reducer: {counter, todos}}): every action goes to both slices.
redux_dispatch(state, action) ==
    [counter |-> counterSlice(state.counter, action),
     todos   |-> todosSlice(state.todos, action)]

\* ------------------------------------ the documented, index-keyed stores
\* Their todos are plain strings and removeTodo takes a 0-based index.
DocStores == {"context-doc", "zustand-doc", "redux-doc"}

Min(a, b) == IF a < b THEN a ELSE b

Max(a, b) == IF a > b THEN a ELSE b

\* Mutation: the index taken as 1-based.
filterIndex_oneBased(todos, index) ==
    IF index \in 1..Len(todos)
    THEN SubSeq(todos, 1, index - 1) \o SubSeq(todos, index + 1, Len(todos))
    ELSE todos

\* todos.filter((_, i) => i !== index)
filterIndex(todos, index) ==
    IF index \in 0..(Len(todos) - 1)
    THEN SubSeq(todos, 1, index) \o SubSeq(todos, index + 2, Len(todos))
    ELSE todos

\* Array.prototype.splice(start, deleteCount), the array it leaves behind: a
\* negative start counts from the end, both arguments are clamped.
splice(todos, start, deleteCount) ==
    LET len   == Len(todos)
        from  == IF start < 0 THEN Max(len + start, 0) ELSE Min(start, len)
        count == Min(Max(deleteCount, 0), len - from)
    IN  SubSeq(todos, 1, from) \o SubSeq(todos, from + count + 1, len)

\* The documented Context reducer.
\* Mutation: REMOVE_TODO drops the first entry whatever the index.
docs_reducer_removeFirst(state, action) ==
    CASE action.type = "INCREMENT" ->
            [state EXCEPT !.counter = [value |-> state.counter.value + 1]]
      [] action.type = "DECREMENT" ->
            [state EXCEPT !.counter = [value |-> state.counter.value - 1]]
      [] action.type = "ADD_TODO" ->
            [state EXCEPT !.todos = [items |-> Append(state.todos.items, action.payload)]]
      [] action.type = "REMOVE_TODO" ->
            [state EXCEPT !.todos = [items |-> SubSeq(state.todos.items, 2,
                                                      Len(state.todos.items))]]
      [] OTHER -> state

docs_reducer(state, action) ==
    CASE action.type = "INCREMENT" ->
            [state EXCEPT !.counter = [value |-> state.counter.value + 1]]
      [] action.type = "DECREMENT" ->
            [state EXCEPT !.counter = [value |-> state.counter.value - 1]]
      [] action.type = "ADD_TODO" ->
            [state EXCEPT !.todos = [items |-> Append(state.todos.items, action.payload)]]
      [] action.type = "REMOVE_TODO" ->
            [state EXCEPT !.todos = [items |-> filterIndex(state.todos.items, action.payload)]]
      [] OTHER -> state

\* The documented (persisted) Zustand store.
docs_zustand_increment(state) == zustand_set(state, [value |-> state.value + 1])

docs_zustand_decrement(state) == zustand_set(state, [value |-> state.value - 1])

docs_zustand_addTodo(state, todo) ==
    zustand_set(state, [todos |-> Append(state.todos, todo)])

docs_zustand_removeTodo(state, index) ==
    zustand_set(state, [todos |-> filterIndex(state.todos, index)])

\* The documented Redux Toolkit todo slice; its counter slice is counterSlice.
todoSlice(state, action) ==
    CASE action.type = "todos/addTodo" ->
            [state EXCEPT !.todos = Append(@, action.payload)]
      [] action.type = "todos/removeTodo" ->
            [state EXCEPT !.todos = splice(@, action.payload, 1)]
      [] OTHER -> state

docs_redux_dispatch(state, action) ==
    [counter |-> counterSlice(state.counter, action),
     todos   |-> todoSlice(state.todos, action)]

\* ------------------------------------------------- the stores, by screen
InitStore(s) ==
    CASE s = "context" -> [count |-> 0, todos |-> <<>>]
      [] s = "zustand" -> [count |-> 0, todos |-> <<>>]
      [] s = "mobx"    -> [count |-> 0, todos |-> <<>>]
      [] s = "recoil"  -> [counterState |-> 0, todosState |-> <<>>]
      [] s = "redux"   -> [counter |-> [value |-> 0], todos |-> [items |-> <<>>]]
      [] s = "context-doc" -> [counter |-> [value |-> 0], todos |-> [items |-> <<>>]]
      [] s = "zustand-doc" -> [value |-> 0, todos |-> <<>>]
      [] s = "redux-doc"   -> [counter |-> [value |-> 0], todos |-> [todos |-> <<>>]]

\* What the screen reads and renders as the counter.
Count(s, st) ==
    CASE s = "recoil" -> st.counterState
      [] s = "redux"  -> st.counter.value
      [] s = "context-doc" -> st.counter.value
      [] s = "zustand-doc" -> st.value
      [] s = "redux-doc"   -> st.counter.value
      [] OTHER        -> st.count

\* What the screen hands to BaseScreen as `todos`.
Todos(s, st) ==
    CASE s = "recoil" -> st.todosState
      [] s = "redux"  -> st.todos.items
      [] s = "context-doc" -> st.todos.items
      [] s = "redux-doc"   -> st.todos.todos
      [] OTHER        -> st.todos

\* The screens' handlers: what pressing + / - / add / remove calls.
onIncrement(s, st) ==
    CASE s = "context" -> reducer(st, [type |-> "INCREMENT"])
      [] s = "zustand" -> zustand_increment(st)
      [] s = "mobx"    -> mobx_increment(st)
      [] s = "recoil"  -> recoil_increment(st)
      [] s = "redux"   -> redux_dispatch(st, [type |-> "counter/increment"])
      [] s = "context-doc" -> docs_reducer(st, [type |-> "INCREMENT"])
      [] s = "zustand-doc" -> docs_zustand_increment(st)
      [] s = "redux-doc"   -> docs_redux_dispatch(st, [type |-> "counter/increment"])

onDecrement(s, st) ==
    CASE s = "context" -> reducer(st, [type |-> "DECREMENT"])
      [] s = "zustand" -> zustand_decrement(st)
      [] s = "mobx"    -> mobx_decrement(st)
      [] s = "recoil"  -> recoil_decrement(st)
      [] s = "redux"   -> redux_dispatch(st, [type |-> "counter/decrement"])
      [] s = "context-doc" -> docs_reducer(st, [type |-> "DECREMENT"])
      [] s = "zustand-doc" -> docs_zustand_decrement(st)
      [] s = "redux-doc"   -> docs_redux_dispatch(st, [type |-> "counter/decrement"])

onAddTodo(s, st, text) ==
    CASE s = "context" -> reducer(st, [type |-> "ADD_TODO", text |-> text])
      [] s = "zustand" -> zustand_addTodo(st, text)
      [] s = "mobx"    -> mobx_addTodo(st, text)
      [] s = "recoil"  -> recoil_addTodo(st, text)
      [] s = "redux"   -> redux_dispatch(st, [type |-> "todos/addTodo", payload |-> text])
      [] s = "context-doc" -> docs_reducer(st, [type |-> "ADD_TODO", payload |-> text])
      [] s = "zustand-doc" -> docs_zustand_addTodo(st, text)
      [] s = "redux-doc"   ->
            docs_redux_dispatch(st, [type |-> "todos/addTodo", payload |-> text])

onRemoveTodo(s, st, id) ==
    CASE s = "context" -> reducer(st, [type |-> "REMOVE_TODO", id |-> id])
      [] s = "zustand" -> zustand_removeTodo(st, id)
      [] s = "mobx"    -> mobx_removeTodo(st, id)
      [] s = "recoil"  -> recoil_removeTodo(st, id)
      [] s = "redux"   -> redux_dispatch(st, [type |-> "todos/removeTodo", payload |-> id])

\* removeTodo of the index-keyed stores.
onRemoveTodoAt(s, st, index) ==
    CASE s = "context-doc" -> docs_reducer(st, [type |-> "REMOVE_TODO", payload |-> index])
      [] s = "zustand-doc" -> docs_zustand_removeTodo(st, index)
      [] s = "redux-doc"   ->
            docs_redux_dispatch(st, [type |-> "todos/removeTodo", payload |-> index])

\* ------------------------------------------------------------ observation
NoOp == [op |-> "none", arg |-> "", id |-> "", pre |-> <<>>]

ScenOff == [step |-> -1, X |-> "", Y |-> ""]

\* The concrete scenario: increment, increment, decrement, addTodo("buy milk"),
\* addTodo("walk dog"), removeTodo(X).  step = k: the whole trace so far is
\* exactly its first k operations; -1: the trace has left it.
ScenNext(sc, op, arg, id) ==
    CASE sc.step \in {0, 1} /\ op = "increment" -> [sc EXCEPT !.step = @ + 1]
      [] sc.step = 2 /\ op = "decrement" -> [sc EXCEPT !.step = 3]
      [] sc.step = 3 /\ op = "addTodo" /\ arg = "buy milk" ->
            [sc EXCEPT !.step = 4, !.X = id]
      [] sc.step = 4 /\ op = "addTodo" /\ arg = "walk dog" ->
            [sc EXCEPT !.step = 5, !.Y = id]
      [] sc.step = 5 /\ op = "removeTodo" /\ arg = sc.X -> [sc EXCEPT !.step = 6]
      [] OTHER -> ScenOff

\* The number of mutations issued so far.
NOps == nInc + nDec + nAdd + nRem

\* What an operation does to the array held in the todos field: "new" (a new
\* array object is stored), "inPlace" (the held array is mutated) or "none".
\* Spread, filter and the Immer draft give a new array; MobX's push does not.
\* Mutation: every set of the Zustand store copies the todos array.
arrayEffect_copyOnSet(s, op) ==
    CASE s = "zustand" -> "new"
      [] op = "removeTodo" -> "new"
      [] op = "addTodo" -> IF s = "mobx" THEN "inPlace" ELSE "new"
      [] OTHER -> "none"

arrayEffect(s, op) ==
    CASE op = "removeTodo" -> "new"
      [] op = "addTodo" -> IF s = "mobx" THEN "inPlace" ELSE "new"
      [] OTHER -> "none"

nextTodosObj(obj, effect) ==
    CASE effect = "new" -> [ref |-> obj.ref + 1, ver |-> 0]
      [] effect = "inPlace" -> [obj EXCEPT !.ver = @ + 1]
      [] OTHER -> obj

\* Whether the screen component is notified (re-rendered) by a mutation.
\* Context: the Provider's value is the new state object the reducer returns.
\* The other screens subscribe to count (compared by value) and to the todos
\* field (compared by identity).
notified(s, pre, post, objPre, objPost) ==
    IF s \in {"context", "context-doc"} THEN TRUE
    ELSE Count(s, pre) # Count(s, post) \/ objPre.ref # objPost.ref

\* Whether a subscription through a selector is notified: useStore compares
\* the selected value before and after with Object.is, a number by value and
\* an array by identity.
selectorNotified(sel, s, pre, post, objPre, objPost) ==
    IF sel = "count"
    THEN Count(s, pre) # Count(s, post)
    ELSE objPre.ref # objPost.ref

\* A notified screen is due to render again.
nextView(s, op, pre, post) ==
    IF notified(s, pre, post, todosObj, nextTodosObj(todosObj, arrayEffect(s, op)))
    THEN [view EXCEPT !.pending = TRUE]
    ELSE view

nextSeen(s, op, pre, post) ==
    IF notified(s, pre, post, todosObj, nextTodosObj(todosObj, arrayEffect(s, op)))
    THEN seen + 1
    ELSE seen

\* total / isEmpty, as the getter, the selector and the hook compute them.
todoStats(todos) == [total |-> Len(todos), isEmpty |-> Len(todos) = 0]

\* ------------------------------------------------ the persist middleware
\* persist(..., {name: "app-storage", storage: createJSONStorage(() =>
\* AsyncStorage)}) around the documented Zustand store. `storage` is the item
\* "app-storage", `load` the state of the getItem issued when the store is
\* created, `pending` the setItem requests in flight, oldest first, `issued`
\* the number of operations of this session that asked for a write.

\* The number of operations per session the model follows under persist.
MaxWrites == 3

\* JSON.stringify of the state: the data fields, the functions are dropped.
toJSON(state) == [k \in {"value", "todos"} |-> state[k]]

NoPersist ==
    [on |-> FALSE, available |-> TRUE,
     storage |-> [present |-> FALSE, state |-> toJSON(InitStore("zustand-doc"))],
     load |-> "none", pending |-> <<>>, issued |-> 0]

\* Mutation: the item is written, and the write awaited, before the state is set.
applySet_saveFirst(p, st, next) == IF p.on /\ ~p.available THEN st ELSE next

\* The set a store's operations call. Under persist it is
\* (...args) => { set(...args); void setItem() }: the in-memory state is set
\* first and whatever the storage does later is not awaited.
applySet(p, st, next) == next

CanSet(p) == p.on => p.issued < MaxWrites

\* void setItem(): one more write of the state as it is now.
afterSet(p, st) ==
    IF p.on
    THEN [p EXCEPT !.pending = Append(@, toJSON(st)), !.issued = @ + 1]
    ELSE p

NoBundle == [pc |-> "off", next |-> 1, files |-> <<>>, gzipped |-> <<>>, results |-> <<>>]

\* The variables an operation of the store leaves alone.
idle == <<newTodo, mounted, memo, bundle, perf>>

HasId(todos, id) == \E i \in 1..Len(todos) : todos[i].id = id

\* ------------------------------------------------------------------ Init
\* The clock, the observation variables and the screen's own state at start.
InitRest ==
    /\ now \in 0..MaxClock
    /\ nInc = 0 /\ nDec = 0 /\ nAdd = 0 /\ nRem = 0 /\ nMiss = 0
    /\ last = NoOp
    /\ scen = [step |-> 0, X |-> "", Y |-> ""]
    /\ todosObj = [ref |-> 0, ver |-> 0]
    /\ seen = 0
    /\ newTodo = ""
    /\ mounted = TRUE
    /\ memo = [deps |-> [ref |-> 0, ver |-> 0], value |-> todoStats(<<>>)]
    /\ view = [rows |-> <<>>, pending |-> FALSE, pressed |-> [id |-> "", text |-> ""]]

InitFor(stores) ==
    /\ screen \in stores
    /\ store = InitStore(screen)
    /\ InitRest

NoPerf ==
    [pc |-> "off", next |-> 1, i |-> 0, state |-> <<>>, renderCounter |-> 0,
     results |-> <<>>]

\* Nothing is persisted and no test is running.
Quiet == persist = NoPersist /\ bundle = NoBundle /\ perf = NoPerf

Init == InitFor(Screens) /\ Quiet

\* ---------------------------------------------------------------- actions
Increment ==
    /\ mounted
    /\ CanSet(persist)
    /\ nInc < MaxInc
    /\ store' = applySet(persist, store, onIncrement(screen, store))
    /\ persist' = afterSet(persist, store')
    /\ nInc' = nInc + 1
    /\ last' = [op |-> "increment", arg |-> "", id |-> "", pre |-> store]
    /\ scen' = ScenNext(scen, "increment", "", "")
    /\ todosObj' = nextTodosObj(todosObj, arrayEffect(screen, "increment"))
    /\ seen' = nextSeen(screen, "increment", store, store')
    /\ view' = nextView(screen, "increment", store, store')
    /\ UNCHANGED <<screen, now, nDec, nAdd, nRem, nMiss>>
    /\ UNCHANGED idle

Decrement ==
    /\ mounted
    /\ CanSet(persist)
    /\ nDec < MaxDec
    /\ store' = applySet(persist, store, onDecrement(screen, store))
    /\ persist' = afterSet(persist, store')
    /\ nDec' = nDec + 1
    /\ last' = [op |-> "decrement", arg |-> "", id |-> "", pre |-> store]
    /\ scen' = ScenNext(scen, "decrement", "", "")
    /\ todosObj' = nextTodosObj(todosObj, arrayEffect(screen, "decrement"))
    /\ seen' = nextSeen(screen, "decrement", store, store')
    /\ view' = nextView(screen, "decrement", store, store')
    /\ UNCHANGED <<screen, now, nInc, nAdd, nRem, nMiss>>
    /\ UNCHANGED idle

AddTodo ==
    /\ mounted
    /\ CanSet(persist)
    /\ nAdd < MaxAdd
    /\ \E text \in Texts :
        /\ store' = applySet(persist, store, onAddTodo(screen, store, text))
        /\ persist' = afterSet(persist, store')
        /\ last' = [op |-> "addTodo", arg |-> text, id |-> toString(DateNow),
                    pre |-> store]
        /\ scen' = ScenNext(scen, "addTodo", text, toString(DateNow))
    /\ nAdd' = nAdd + 1
    /\ todosObj' = nextTodosObj(todosObj, arrayEffect(screen, "addTodo"))
    /\ seen' = nextSeen(screen, "addTodo", store, store')
    /\ view' = nextView(screen, "addTodo", store, store')
    /\ UNCHANGED <<screen, now, nInc, nDec, nRem, nMiss>>
    /\ UNCHANGED idle

RemoveTodo ==
    /\ mounted
    /\ screen \in Screens
    /\ nRem < MaxRem
    /\ \E id \in Ids :
        /\ store' = onRemoveTodo(screen, store, id)
        /\ UNCHANGED persist
        /\ last' = [op |-> "removeTodo", arg |-> id, id |-> "", pre |-> store]
        /\ scen' = ScenNext(scen, "removeTodo", id, "")
        /\ nMiss' = IF HasId(Todos(screen, store), id) THEN nMiss ELSE nMiss + 1
    /\ nRem' = nRem + 1
    /\ todosObj' = nextTodosObj(todosObj, arrayEffect(screen, "removeTodo"))
    /\ seen' = nextSeen(screen, "removeTodo", store, store')
    /\ view' = nextView(screen, "removeTodo", store, store')
    /\ UNCHANGED <<screen, now, nInc, nDec, nAdd>>
    /\ UNCHANGED idle

\* Time passes between two user actions.
Tick ==
    /\ now < MaxClock
    /\ now' = now + 1
    /\ UNCHANGED <<screen, store, nInc, nDec, nAdd, nRem, nMiss, last, scen>>
    /\ UNCHANGED <<todosObj, seen, view, persist>>
    /\ UNCHANGED idle

Next == Increment \/ Decrement \/ AddTodo \/ RemoveTodo \/ Tick

Spec == Init /\ [][Next]_vars

\* ------------------------------------------------------------ properties
CurCount == Count(screen, store)

CurTodos == Todos(screen, store)

PreCount == Count(screen, last.pre)

PreTodos == Todos(screen, last.pre)

\* C1: in every store variant, count equals the number of increment calls
\* minus the number of decrement calls made since the initial state, however
\* they are interleaved with addTodo and removeTodo calls.
C1_CountIsSignedSum == CurCount = nInc - nDec

C1_Witness ==
    /\ nInc = 2 /\ nDec = 1 /\ nAdd >= 1 /\ nRem >= 1
    /\ CurCount = 1

\* C2: addTodo(t) immediately followed by removeTodo(id of the todo just
\* created) leaves the todo list equal to the list before the pair of calls.
C2_AddThenRemoveRestores ==
    [][(last.op = "addTodo" /\ last'.op = "removeTodo" /\ last'.arg = last.id)
         => Todos(screen, store') = PreTodos]_vars

\* C3: no two entries of the todo list carry the same id, for every
\* non-decreasing sequence of clock readings.
C3_IdsDistinct ==
    \A i, j \in 1..Len(CurTodos) : i # j => CurTodos[i].id # CurTodos[j].id

\* C4: when every removeTodo call so far named an entry present in the list,
\* the list has exactly (number of addTodo calls) - (number of removeTodo
\* calls) entries.
C4_LengthIsAddsMinusRemoves == nMiss = 0 => Len(CurTodos) = nAdd - nRem

\* C5: removeTodo(id) with an id carried by no entry leaves count and the
\* todo list unchanged (and yields a state: no error).
C5_UnmatchedRemoveIsNoOp ==
    (last.op = "removeTodo" /\ ~HasId(PreTodos, last.arg))
        => /\ CurTodos = PreTodos
           /\ CurCount = PreCount

C5_Witness ==
    /\ last.op = "removeTodo"
    /\ ~HasId(PreTodos, last.arg)
    /\ Len(PreTodos) = 2

\* C6: addTodo(text) yields the previous list, unchanged and in the same
\* order, followed by exactly one new entry whose text is the argument.
C6_AddAppendsAtTail ==
    last.op = "addTodo"
        => /\ Len(CurTodos) = Len(PreTodos) + 1
           /\ SubSeq(CurTodos, 1, Len(PreTodos)) = PreTodos
           /\ CurTodos[Len(CurTodos)].text = last.arg

C6_Witness ==
    /\ last.op = "addTodo"
    /\ Len(PreTodos) >= 1
    /\ PreTodos[1].text # last.arg

\* C7: the trace increment, increment, decrement, addTodo("buy milk") (id X),
\* addTodo("walk dog") (id Y), removeTodo(X) from the initial state ends with
\* count = 1 and todos = [{id: Y, text: "walk dog"}]; after the second addTodo
\* the list has length 2.
C7_Scenario ==
    /\ scen.step = 5 => Len(CurTodos) = 2
    /\ scen.step = 6 =>
        /\ CurCount = 1
        /\ CurTodos = <<[id |-> scen.Y, text |-> "walk dog"]>>

\* A valid AppState of the screen's store: the fields of the initial store and
\* no other, an integer count, a sequence of {id, text} entries.
ValidAppState(s, st) ==
    /\ DOMAIN st = DOMAIN InitStore(s)
    /\ s = "redux" => /\ DOMAIN st.counter = {"value"}
                      /\ DOMAIN st.todos = {"items"}
    /\ Count(s, st) \in Int
    /\ Todos(s, st) \in Seq([id : Ids, text : Texts])

\* C8: each of the four operations is enabled in every reachable state (up to
\* the bound on the number of calls) and the store is always a valid AppState:
\* no error, pending or loading state is reachable.
C8_TotalAndValid ==
    /\ ValidAppState(screen, store)
    /\ nInc < MaxInc => ENABLED Increment
    /\ nDec < MaxDec => ENABLED Decrement
    /\ nAdd < MaxAdd => ENABLED AddTodo
    /\ nRem < MaxRem => ENABLED RemoveTodo

C8_Witness ==
    /\ nInc >= 1 /\ nDec >= 1 /\ nAdd >= 1 /\ nRem >= 1 /\ nMiss >= 1
    /\ CurCount < 0
    /\ Len(CurTodos) >= 1

\* C9: decrement from count = c always yields c - 1, also when c <= 0, and
\* increment always yields c + 1: neither is rejected or clamped.
C9_NoClamp ==
    /\ last.op = "decrement" => CurCount = PreCount - 1
    /\ last.op = "increment" => CurCount = PreCount + 1
    /\ (last.op = "decrement" /\ last.pre = InitStore(screen)) => CurCount = -1

C9_Witness ==
    /\ last.op = "decrement"
    /\ PreCount < 0
    /\ CurCount = PreCount - 1

\* C10: increment and decrement leave the todo list unchanged, and addTodo
\* and removeTodo leave count unchanged.
C10_Frame ==
    /\ last.op \in {"increment", "decrement"} => CurTodos = PreTodos
    /\ last.op \in {"addTodo", "removeTodo"} => CurCount = PreCount

C10_Witness ==
    /\ last.op = "removeTodo"
    /\ CurCount # 0
    /\ Len(CurTodos) < Len(PreTodos)

C12_EveryMutationNotifiedOnce == seen = NOps

---------------------------------------------------------------------------
\* The shared input component (BaseScreen): a text input, an add button and
\* one remove button per displayed row.

WhiteSpace == {" ", "\t", "\n"}

RECURSIVE trimStart(_)
trimStart(s) ==
    IF Len(s) > 0 /\ Head(s) \in WhiteSpace THEN trimStart(Tail(s)) ELSE s

RECURSIVE trimEnd(_)
trimEnd(s) ==
    IF Len(s) > 0 /\ SubSeq(s, Len(s), Len(s)) \in WhiteSpace
    THEN trimEnd(SubSeq(s, 1, Len(s) - 1))
    ELSE s

\* String.prototype.trim
trim(s) == trimEnd(trimStart(s))

\* What the user can have in the input field.
Inputs == {"", " \t", " buy milk ", "walk dog"}

\* Mutation: the guard tests the raw input.
addPressAccepts_noTrim(text) == text # ""

\* if (newTodo.trim()): a non-empty string is truthy
addPressAccepts(text) == trim(text) # ""

\* onChangeText={setNewTodo}
ChangeText ==
    /\ mounted
    /\ \E text \in Inputs :
         /\ text # newTodo
         /\ newTodo' = text
         /\ last' = [op |-> "changeText", arg |-> text, id |-> "", pre |-> store]
    /\ UNCHANGED <<screen, store, now, nInc, nDec, nAdd, nRem, nMiss, scen,
                   todosObj, seen, view, mounted, memo, persist, bundle, perf>>

\* The add button's onPress.
PressAdd ==
    /\ mounted
    /\ addPressAccepts(newTodo) => nAdd < MaxAdd
    /\ last' = [op |-> "pressAdd", arg |-> newTodo, id |-> toString(DateNow),
                pre |-> store]
    /\ IF addPressAccepts(newTodo)
       THEN /\ store' = onAddTodo(screen, store, newTodo)
            /\ newTodo' = ""
            /\ nAdd' = nAdd + 1
            /\ todosObj' = nextTodosObj(todosObj, arrayEffect(screen, "addTodo"))
            /\ seen' = nextSeen(screen, "addTodo", store, store')
            /\ view' = nextView(screen, "addTodo", store, store')
       ELSE UNCHANGED <<store, newTodo, nAdd, todosObj, seen, view>>
    /\ UNCHANGED <<screen, now, nInc, nDec, nRem, nMiss, scen,
                   mounted, memo, persist, bundle, perf>>

\* A row's remove button: onRemoveTodo(item.id)
PressRemove ==
    /\ mounted
    /\ nRem < MaxRem
    /\ \E i \in 1..Len(Todos(screen, store)) :
         LET id == Todos(screen, store)[i].id
         IN  /\ store' = onRemoveTodo(screen, store, id)
             /\ last' = [op |-> "pressRemove", arg |-> id, id |-> id, pre |-> store]
    /\ nRem' = nRem + 1
    /\ todosObj' = nextTodosObj(todosObj, arrayEffect(screen, "removeTodo"))
    /\ seen' = nextSeen(screen, "removeTodo", store, store')
    /\ view' = nextView(screen, "removeTodo", store, store')
    /\ UNCHANGED <<screen, now, nInc, nDec, nAdd, nMiss, scen,
                   newTodo, mounted, memo, persist, bundle, perf>>

NextUI == ChangeText \/ PressAdd \/ PressRemove \/ Increment \/ Decrement \/ Tick

SpecUI == Init /\ [][NextUI]_vars

\* C13: a press of the add button with an empty or whitespace-only input
\* changes neither todos nor count nor the input's content, and no stored
\* todo has a text that is empty after trimming.
C13_BlankPressRejected ==
    /\ (last.op = "pressAdd" /\ trim(last.arg) = "") =>
          /\ CurTodos = Todos(screen, last.pre)
          /\ CurCount = Count(screen, last.pre)
          /\ newTodo = last.arg
    /\ \A i \in 1..Len(CurTodos) : trim(CurTodos[i].text) # ""

C13_Witness ==
    /\ last.op = "pressAdd"
    /\ last.arg = " \t"
    /\ Len(CurTodos) > 0
    /\ CurCount # 0

\* C14: every todo stored through the input component has a text equal to
\* its own trim (no leading and no trailing whitespace).
C14_StoredTextTrimmed ==
    \A i \in 1..Len(CurTodos) : trim(CurTodos[i].text) = CurTodos[i].text

---------------------------------------------------------------------------
\* The screen's lifecycle: the navigator unmounts the screen and mounts it
\* again.

\* Mutation: RecoilRoot placed in the root layout, above the navigator.
heldByComponent_rootInLayout(s) == s = "context"

\* Whether the store is state of the screen's wrapper component (useReducer in
\* ContextWrapper, RecoilRoot in RecoilWrapper) or a module-level object
\* (create(...), new Store(), configureStore(...)).
heldByComponent(s) == s \in {"context", "recoil"}

Unmount ==
    /\ mounted
    /\ mounted' = FALSE
    /\ last' = [op |-> "unmount", arg |-> "", id |-> "", pre |-> store]
    /\ UNCHANGED <<screen, store, now, nInc, nDec, nAdd, nRem, nMiss, scen,
                   todosObj, seen, view, newTodo, memo, persist, bundle, perf>>

\* Mounting runs the wrapper component: useReducer(reducer, initial state),
\* a new RecoilRoot, useState(""); a module-level store is only read.
Mount ==
    /\ ~mounted
    /\ mounted' = TRUE
    /\ store' = IF heldByComponent(screen) THEN InitStore(screen) ELSE store
    /\ todosObj' = IF heldByComponent(screen)
                   THEN [ref |-> 0, ver |-> 0]
                   ELSE todosObj
    /\ newTodo' = ""
    /\ last' = [op |-> "mount", arg |-> "", id |-> "", pre |-> store]
    /\ view' = [view EXCEPT !.rows = Todos(screen, store'), !.pending = FALSE]
    /\ UNCHANGED <<screen, now, nInc, nDec, nAdd, nRem, nMiss, scen,
                   seen, memo, persist, bundle, perf>>

NextLife == Next \/ Unmount \/ Mount

SpecLife == Init /\ [][NextLife]_vars

---------------------------------------------------------------------------
\* The documented index-keyed stores, driven by their four operations.

\* The indices a caller passes: the valid ones, one below and one above.
Indices == -1..MaxAdd

RemoveTodoAt ==
    /\ mounted
    /\ CanSet(persist)
    /\ screen \in DocStores
    /\ nRem < MaxRem
    /\ \E index \in Indices :
         /\ store' = applySet(persist, store, onRemoveTodoAt(screen, store, index))
         /\ persist' = afterSet(persist, store')
         /\ last' = [op |-> "removeTodoAt", arg |-> index, id |-> "", pre |-> store]
    /\ nRem' = nRem + 1
    /\ todosObj' = nextTodosObj(todosObj, arrayEffect(screen, "removeTodo"))
    /\ seen' = nextSeen(screen, "removeTodo", store, store')
    /\ view' = nextView(screen, "removeTodo", store, store')
    /\ UNCHANGED <<screen, now, nInc, nDec, nAdd, nMiss, scen>>
    /\ UNCHANGED idle

InitDoc == InitFor(DocStores) /\ Quiet

NextDoc == Increment \/ Decrement \/ AddTodo \/ RemoveTodoAt

SpecDoc == InitDoc /\ [][NextDoc]_vars

\* C19: in the index-keyed stores, addTodo(t) followed by removeTodo(i), with
\* i the length of the list before the addTodo, restores that list; on an
\* empty list addTodo then removeTodo(0) leaves an empty list.
C19_AddThenRemoveAtRestores ==
    [][(/\ last.op = "addTodo"
        /\ last'.op = "removeTodoAt"
        /\ last'.arg = Len(Todos(screen, last.pre)))
       => Todos(screen, store') = Todos(screen, last.pre)]_vars

C19_Witness ==
    /\ last.op = "removeTodoAt"
    /\ last.arg = 1
    /\ Len(Todos(screen, last.pre)) = 2
    /\ Len(CurTodos) = 1
    /\ nAdd = 2 /\ nRem = 1 /\ nInc = 0 /\ nDec = 0
    /\ screen = "redux-doc"

---------------------------------------------------------------------------
\* The derived statistics: a MobX computed getter, a Recoil selector and a
\* useMemo hook over the documented Context store. Each caches its last
\* result and recomputes it when what it depends on has changed.

StatsStores == {"mobx", "recoil", "context-doc"}

\* Mutation: an empty dependency list, the first result is kept for ever.
statsDeps_emptyList(s, obj) == [ref |-> 0, ver |-> 0]

\* What the cached result is keyed on. The computed getter reads the length
\* of the observable array, which changes with the field and with a push;
\* the selector and useMemo([todos]) compare the array's identity.
statsDeps(s, obj) == IF s = "mobx" THEN obj ELSE [ref |-> obj.ref, ver |-> 0]

\* What a consumer reading the statistics now gets.
readStats ==
    IF statsDeps(screen, todosObj) = memo.deps
    THEN memo.value
    ELSE todoStats(Todos(screen, store))

\* A consumer reads the statistics (a render of the screen).
ReadStats ==
    /\ mounted
    /\ screen \in StatsStores
    /\ memo' = [deps |-> statsDeps(screen, todosObj), value |-> readStats]
    /\ memo' # memo
    /\ UNCHANGED <<screen, store, now, nInc, nDec, nAdd, nRem, nMiss, last, scen,
                   todosObj, seen, view, newTodo, mounted, persist, bundle, perf>>

InitStats == InitFor(StatsStores) /\ Quiet

NextStats ==
    Increment \/ Decrement \/ AddTodo \/ RemoveTodo \/ RemoveTodoAt \/ Tick \/ ReadStats

SpecStats == InitStats /\ [][NextStats]_vars

\* C16: in every reachable state the statistics a consumer reads have
\* total = length of todos and isEmpty = (length of todos = 0), in the
\* computed-getter, the selector and the memoized-hook form.
C16_StatsNeverStale ==
    /\ readStats.total = Len(CurTodos)
    /\ readStats.isEmpty = (Len(CurTodos) = 0)

C16_Witness ==
    /\ screen = "mobx"
    /\ memo.deps = todosObj
    /\ memo.value.total = 2
    /\ todosObj.ver = 1
    /\ nRem > 0
    /\ CurCount # 0

---------------------------------------------------------------------------
\* The bundle-size comparison (bundle-analysis.test.ts): one store file is
\* written per library, measured, and two of the measurements are compared.

\* The calls of getBundleMetrics, in the order the test makes them.
Measured ==
    << [lib |-> "redux",   path |-> "redux/store.ts"],
       [lib |-> "zustand", path |-> "zustand/store.ts"],
       [lib |-> "context", path |-> "context/store.ts"],
       [lib |-> "mobx",    path |-> "mobx/store.ts"],
       [lib |-> "recoil",  path |-> "recoil/store.ts"],
       [lib |-> "jotai",   path |-> "jotai/store.ts"] >>

Paths == {Measured[i].path : i \in 1..Len(Measured)}

defaultStoreContent ==
    "\n      export const createStore = () => ({\n        state: {},\n        actions: {},\n      });\n    "

\* What a file of the store directory may hold before the test runs.
OldContents == {"absent", "", "export default {};"}

\* The sizes gzip may give for the test's content. The model does not compute
\* gzip: bundle.gzipped is some fixed function from contents to sizes.
GzipSizes == 20..(Len(defaultStoreContent) + 20)

\* The content the test passes for a library: the same for all of them.
contentFor(lib) == defaultStoreContent

\* statSync(fullPath).size
rawSize(content) == Len(content)

\* gzipSize.file(fullPath)
gzippedSize(content) == bundle.gzipped[content]

InitBundle ==
    /\ InitFor({"context"})
    /\ now = 0
    /\ persist = NoPersist
    /\ perf = NoPerf
    /\ \E files \in [Paths -> OldContents],
          gz \in [{defaultStoreContent} -> GzipSizes] :
         bundle = [pc |-> "measure", next |-> 1, files |-> files,
                   gzipped |-> gz, results |-> <<>>]

\* One call of getBundleMetrics: createTestFile, statSync, gzipSize.file.
GetBundleMetrics ==
    /\ bundle.pc = "measure"
    /\ bundle.next <= Len(Measured)
    /\ LET m       == Measured[bundle.next]
           files   == [bundle.files EXCEPT ![m.path] = contentFor(m.lib)]
           metrics == [rawSize      |-> rawSize(files[m.path]),
                       gzippedSize  |-> gzippedSize(files[m.path]),
                       relativePath |-> m.path]
           results == [l \in DOMAIN bundle.results \cup {m.lib} |->
                          IF l = m.lib THEN metrics ELSE bundle.results[l]]
       IN  bundle' = [bundle EXCEPT
                         !.files = files,
                         !.results = results,
                         !.next = @ + 1,
                         !.pc = IF bundle.next = Len(Measured) THEN "expect" ELSE "measure"]
    /\ UNCHANGED <<screen, store, now, nInc, nDec, nAdd, nRem, nMiss, last, scen,
                   todosObj, seen, view, newTodo, mounted, memo, persist, perf>>

\* mkdirSync or writeFileSync throws: the error is logged and rethrown.
CreateTestFileThrows ==
    /\ bundle.pc = "measure"
    /\ bundle' = [bundle EXCEPT !.pc = "failed"]
    /\ UNCHANGED <<screen, store, now, nInc, nDec, nAdd, nRem, nMiss, last, scen,
                   todosObj, seen, view, newTodo, mounted, memo, persist, perf>>

\* The two expect(...).toBeLessThan(...) of the test.
Expect ==
    /\ bundle.pc = "expect"
    /\ bundle' = [bundle EXCEPT !.pc =
          IF /\ bundle.results["zustand"].gzippedSize < bundle.results["redux"].gzippedSize
             /\ bundle.results["context"].rawSize < bundle.results["recoil"].rawSize
          THEN "passed"
          ELSE "failed"]
    /\ UNCHANGED <<screen, store, now, nInc, nDec, nAdd, nRem, nMiss, last, scen,
                   todosObj, seen, view, newTodo, mounted, memo, persist, perf>>

NextBundle == GetBundleMetrics \/ CreateTestFileThrows \/ Expect

SpecBundle == InitBundle /\ [][NextBundle]_vars

\* C20: once the six files are written and measured, the gzipped size
\* measured for zustand is strictly smaller than the one measured for redux,
\* and the raw size measured for context is strictly smaller than the one
\* measured for recoil.
C20_SizesStrictlyOrdered ==
    bundle.pc = "expect" =>
        /\ bundle.results["zustand"].gzippedSize < bundle.results["redux"].gzippedSize
        /\ bundle.results["context"].rawSize < bundle.results["recoil"].rawSize

---------------------------------------------------------------------------
\* The documented Zustand store under persist, with an asynchronous storage.

\* What the item "app-storage" may hold from an earlier session.
StoredStates == {[value |-> 1, todos |-> <<"walk dog">>]}

InitPersist ==
    /\ InitFor({"zustand-doc"})
    /\ now = 0
    /\ bundle = NoBundle
    /\ perf = NoPerf
    /\ \E storage \in {NoPersist.storage} \cup
                      {[present |-> TRUE, state |-> st] : st \in StoredStates} :
         persist = [on |-> TRUE, available |-> TRUE, storage |-> storage,
                    load |-> "pending", pending |-> <<>>, issued |-> 0]

\* The storage collaborator becomes unavailable, or available again.
StorageChanges ==
    /\ persist.on
    /\ persist' = [persist EXCEPT !.available = ~@]
    /\ UNCHANGED <<screen, store, now, nInc, nDec, nAdd, nRem, nMiss, last, scen,
                   todosObj, seen, view, newTodo, mounted, memo, bundle, perf>>

\* The oldest setItem in flight settles: the item is written, or the promise
\* is rejected. Nobody awaits it.
SaveSettles ==
    /\ persist.on
    /\ persist.pending # <<>>
    /\ persist' =
          IF persist.available
          THEN [persist EXCEPT !.pending = Tail(@),
                               !.storage = [present |-> TRUE,
                                            state |-> Head(persist.pending)]]
          ELSE [persist EXCEPT !.pending = Tail(@)]
    /\ UNCHANGED <<screen, store, now, nInc, nDec, nAdd, nRem, nMiss, last, scen,
                   todosObj, seen, view, newTodo, mounted, memo, bundle, perf>>

\* The getItem issued at creation settles (hydration). A stored item is
\* merged over the current state, {...currentState, ...persistedState}, set,
\* and written back; no item, or a rejection, leaves the state as it is.
LoadSettles ==
    /\ persist.on
    /\ persist.load = "pending"
    /\ last' = [op |-> "load", arg |-> "", id |-> "", pre |-> store]
    /\ IF persist.available /\ persist.storage.present
       THEN /\ store' = zustand_set(store, persist.storage.state)
            /\ persist' = [persist EXCEPT !.load = "done",
                                           !.pending = Append(@, toJSON(store'))]
            /\ todosObj' = nextTodosObj(todosObj, "new")
            /\ seen' = seen
            /\ view' = [view EXCEPT !.pending = TRUE]
       ELSE /\ persist' = [persist EXCEPT
                             !.load = IF persist.available THEN "done" ELSE "failed"]
            /\ UNCHANGED <<store, todosObj, seen, view>>
    /\ UNCHANGED <<screen, now, nInc, nDec, nAdd, nRem, nMiss, scen,
                   newTodo, mounted, memo, bundle, perf>>

NextPersist ==
    \/ Increment \/ Decrement \/ AddTodo \/ RemoveTodoAt
    \/ StorageChanges \/ SaveSettles \/ LoadSettles

SpecPersist == InitPersist /\ [][NextPersist]_vars

C18_LoadNeverReplacesAfterMutation ==
    (last.op = "load" /\ NOps > 0) =>
        /\ CurCount = Count(screen, last.pre)
        /\ CurTodos = Todos(screen, last.pre)

---------------------------------------------------------------------------
\* The five screen stores side by side: each is given the same operation with
\* the same argument at the same clock reading. `store` holds the five of
\* them, indexed by screen.

InitLock ==
    /\ screen = "lockstep"
    /\ store = [s \in Screens |-> InitStore(s)]
    /\ InitRest
    /\ Quiet

LockIncrement ==
    /\ nInc < MaxInc
    /\ store' = [s \in Screens |-> onIncrement(s, store[s])]
    /\ nInc' = nInc + 1
    /\ last' = [op |-> "increment", arg |-> "", id |-> "", pre |-> store]
    /\ UNCHANGED <<screen, now, nDec, nAdd, nRem, nMiss, scen, todosObj, seen, view, persist>>
    /\ UNCHANGED idle

LockDecrement ==
    /\ nDec < MaxDec
    /\ store' = [s \in Screens |-> onDecrement(s, store[s])]
    /\ nDec' = nDec + 1
    /\ last' = [op |-> "decrement", arg |-> "", id |-> "", pre |-> store]
    /\ UNCHANGED <<screen, now, nInc, nAdd, nRem, nMiss, scen, todosObj, seen, view, persist>>
    /\ UNCHANGED idle

LockAddTodo ==
    /\ nAdd < MaxAdd
    /\ \E text \in Texts :
         /\ store' = [s \in Screens |-> onAddTodo(s, store[s], text)]
         /\ last' = [op |-> "addTodo", arg |-> text, id |-> toString(DateNow),
                     pre |-> store]
    /\ nAdd' = nAdd + 1
    /\ UNCHANGED <<screen, now, nInc, nDec, nRem, nMiss, scen, todosObj, seen, view, persist>>
    /\ UNCHANGED idle

LockRemoveTodo ==
    /\ nRem < MaxRem
    /\ \E id \in Ids :
         /\ store' = [s \in Screens |-> onRemoveTodo(s, store[s], id)]
         /\ last' = [op |-> "removeTodo", arg |-> id, id |-> "", pre |-> store]
    /\ nRem' = nRem + 1
    /\ UNCHANGED <<screen, now, nInc, nDec, nAdd, nMiss, scen, todosObj, seen, view, persist>>
    /\ UNCHANGED idle

NextLock == LockIncrement \/ LockDecrement \/ LockAddTodo \/ LockRemoveTodo \/ Tick

SpecLock == InitLock /\ [][NextLock]_vars

\* C21: given the same operations with the same arguments at the same clock
\* readings, the five screen stores hold equal counts and equal todo lists
\* (same ids, same texts, same order) after every step.
C21_StoresEquivalent ==
    \A s, t \in Screens :
        /\ Count(s, store[s]) = Count(t, store[t])
        /\ Todos(s, store[s]) = Todos(t, store[t])

C21_Witness ==
    /\ screen = "lockstep"
    /\ nRem > 0
    /\ Count("redux", store["redux"]) < 0
    /\ Len(Todos("mobx", store["mobx"])) = 1
    /\ Len(Todos("mobx", last.pre["mobx"])) = 2

\* C22: in every index-keyed store, removeTodo(i) with i negative or at least
\* the length of the list leaves the list unchanged.
C22_OutOfRangeRemoveIsNoOp ==
    (/\ last.op = "removeTodoAt"
     /\ last.arg \notin 0..(Len(Todos(screen, last.pre)) - 1))
    => CurTodos = Todos(screen, last.pre)

---------------------------------------------------------------------------
\* The rendered list. A notified screen renders again some time after the
\* mutation; until then its rows, and the remove handlers they carry, are the
\* ones of the earlier render.

\* The screen renders: the rows become the store's current todos.
Render ==
    /\ mounted
    /\ view.pending
    /\ view' = [view EXCEPT !.rows = Todos(screen, store), !.pending = FALSE]
    /\ UNCHANGED <<screen, store, now, nInc, nDec, nAdd, nRem, nMiss, last, scen,
                   todosObj, seen, newTodo, mounted, memo, persist, bundle, perf>>

\* The remove button of a displayed row of an id-keyed screen:
\* onRemove={() => onRemoveTodo(item.id)}
RemoveRow ==
    /\ mounted
    /\ screen \in Screens
    /\ nRem < MaxRem
    /\ \E i \in 1..Len(view.rows) :
         LET item == view.rows[i]
         IN  /\ store' = onRemoveTodo(screen, store, item.id)
             /\ last' = [op |-> "removeRow", arg |-> item.id, id |-> "", pre |-> store]
             /\ view' = [nextView(screen, "removeTodo", store, store')
                            EXCEPT !.pressed = item]
    /\ nRem' = nRem + 1
    /\ scen' = ScenOff
    /\ todosObj' = nextTodosObj(todosObj, arrayEffect(screen, "removeTodo"))
    /\ seen' = nextSeen(screen, "removeTodo", store, store')
    /\ UNCHANGED <<screen, now, nInc, nDec, nAdd, nMiss, persist>>
    /\ UNCHANGED idle

\* The remove button of a displayed row of an index-keyed list:
\* renderItem={({item, index}) => <TodoItem ... onRemove={() => onRemove(index)} />}
RemoveRowAt ==
    /\ mounted
    /\ screen \in DocStores
    /\ nRem < MaxRem
    /\ \E i \in 1..Len(view.rows) :
         LET item  == view.rows[i]
             index == i - 1
         IN  /\ store' = onRemoveTodoAt(screen, store, index)
             /\ last' = [op |-> "removeRowAt", arg |-> index, id |-> "", pre |-> store]
             /\ view' = [nextView(screen, "removeTodo", store, store')
                            EXCEPT !.pressed = [id |-> "", text |-> item]]
    /\ nRem' = nRem + 1
    /\ scen' = ScenOff
    /\ todosObj' = nextTodosObj(todosObj, arrayEffect(screen, "removeTodo"))
    /\ seen' = nextSeen(screen, "removeTodo", store, store')
    /\ UNCHANGED <<screen, now, nInc, nDec, nAdd, nMiss, persist>>
    /\ UNCHANGED idle

InitRows == InitFor(Screens \cup DocStores) /\ Quiet

NextRows ==
    Increment \/ Decrement \/ AddTodo \/ RemoveRow \/ RemoveRowAt \/ Render \/ Tick

SpecRows == InitRows /\ [][NextRows]_vars

\* The list without its entry at position k (1-based).
Without(todos, k) == SubSeq(todos, 1, k - 1) \o SubSeq(todos, k + 1, Len(todos))

\* C23: in the index-keyed variants a remove request carries the position its
\* row had when it was displayed and removes whatever entry sits at that
\* position when the request is applied, or nothing if there is none; the
\* entry removed can be another todo than the one displayed.
C23_RemovesEntryAtPosition ==
    last.op = "removeRowAt" =>
        LET pre == Todos(screen, last.pre)
        IN  CurTodos = IF last.arg < Len(pre) THEN Without(pre, last.arg + 1) ELSE pre

C23_Witness ==
    /\ last.op = "removeRowAt"
    /\ last.arg < Len(Todos(screen, last.pre))
    /\ Todos(screen, last.pre)[last.arg + 1] # view.pressed.text
    /\ screen = "zustand-doc"

\* C24: in the id-keyed screens a remove request issued from a row rendered in
\* an earlier state removes the todo that row displayed and no other, or
\* nothing if that todo is no longer in the list.
C24_RemovesOnlyDisplayedTodo ==
    last.op = "removeRow" =>
        LET pre == Todos(screen, last.pre)
        IN  IF \E k \in 1..Len(pre) : pre[k] = view.pressed
            THEN \E k \in 1..Len(pre) :
                    pre[k] = view.pressed /\ CurTodos = Without(pre, k)
            ELSE CurTodos = pre

\* C25: no transition alters a value already handed out: as long as the
\* todos field holds the same array object, the array has the same contents.
C25_HandedOutListUnaltered ==
    [][todosObj'.ref = todosObj.ref =>
          Todos(screen, store') = Todos(screen, store)]_vars

C27_SelectorsIsolated ==
    [][screen = "zustand" =>
         /\ (nInc' # nInc \/ nDec' # nDec) =>
               ~selectorNotified("todos", screen, store, store', todosObj, todosObj')
         /\ (nAdd' # nAdd \/ nRem' # nRem) =>
               ~selectorNotified("count", screen, store, store', todosObj, todosObj')]_vars

C27_Witness ==
    /\ screen = "zustand"
    /\ nInc > 0 /\ nDec > 0 /\ nAdd > 0 /\ nRem > 0
    /\ last.op = "increment"
    /\ Len(CurTodos) > 0
    /\ seen = NOps

---------------------------------------------------------------------------
\* The increment performance comparison: for each library in turn,
\* measurePerformance sets the shared render counter to 0, runs the
\* operation (1000 increments) and reports the counter as reRenderCount.

\* for (let i = 0; i < 1000; i++)
Iterations == 1000

\* The measurements in the order the test makes them, each with its store.
Compared ==
    << [lib |-> "contextApi", store |-> "context-doc"],
       [lib |-> "zustand",    store |-> "zustand-doc"],
       [lib |-> "redux",      store |-> "redux-doc"] >>

InitPerf ==
    /\ InitFor({"context-doc"})
    /\ now = 0
    /\ persist = NoPersist
    /\ bundle = NoBundle
    /\ perf = [pc |-> "start", next |-> 1, i |-> 0, state |-> <<>>,
               renderCounter |-> 0, results |-> <<>>]

\* measurePerformance up to the call of the operation: renderCounter.count = 0;
\* the operation creates its store (renderHook, or the module's store).
MeasureStart ==
    /\ perf.pc = "start"
    /\ perf' = [perf EXCEPT !.pc = "run", !.i = 0, !.renderCounter = 0,
                            !.state = InitStore(Compared[perf.next].store)]
    /\ UNCHANGED <<screen, store, now, nInc, nDec, nAdd, nRem, nMiss, last, scen,
                   todosObj, seen, newTodo, mounted, memo, persist, bundle, view>>

\* One round of the loop: act(() => increment()). Nothing in the operation
\* refers to the render counter.
PerfIncrement ==
    /\ perf.pc = "run"
    /\ perf.i < Iterations
    /\ perf' = [perf EXCEPT !.i = @ + 1,
                            !.state = onIncrement(Compared[perf.next].store, @)]
    /\ UNCHANGED <<screen, store, now, nInc, nDec, nAdd, nRem, nMiss, last, scen,
                   todosObj, seen, newTodo, mounted, memo, persist, bundle, view>>

\* The operation returns: reRenderCount: renderCounter.count
MeasureEnd ==
    /\ perf.pc = "run"
    /\ perf.i = Iterations
    /\ LET lib     == Compared[perf.next].lib
           results == [l \in DOMAIN perf.results \cup {lib} |->
                          IF l = lib
                          THEN [reRenderCount |-> perf.renderCounter]
                          ELSE perf.results[l]]
       IN  perf' = [perf EXCEPT
                       !.results = results,
                       !.next = @ + 1,
                       !.pc = IF perf.next = Len(Compared) THEN "expect" ELSE "start"]
    /\ UNCHANGED <<screen, store, now, nInc, nDec, nAdd, nRem, nMiss, last, scen,
                   todosObj, seen, newTodo, mounted, memo, persist, bundle, view>>

\* expect(results.zustand.reRenderCount).toBeLessThan(results.contextApi.reRenderCount)
PerfExpect ==
    /\ perf.pc = "expect"
    /\ perf' = [perf EXCEPT !.pc =
          IF perf.results["zustand"].reRenderCount
                < perf.results["contextApi"].reRenderCount
          THEN "passed"
          ELSE "failed"]
    /\ UNCHANGED <<screen, store, now, nInc, nDec, nAdd, nRem, nMiss, last, scen,
                   todosObj, seen, newTodo, mounted, memo, persist, bundle, view>>

NextPerf == MeasureStart \/ PerfIncrement \/ MeasureEnd \/ PerfExpect

SpecPerf == InitPerf /\ [][NextPerf]_vars

\* C30: in the increment performance comparison the reRenderCount reported
\* for Zustand is strictly less than the one reported for the Context API.
C30_ZustandRendersLess ==
    perf.pc = "expect" =>
        perf.results["zustand"].reRenderCount
            < perf.results["contextApi"].reRenderCount

---------------------------------------------------------------------------
\* The positions of the entries of todos that filter((todo) => todo.id !== id)
\* keeps, and the k-th of them in list order.
keptPositions(todos, id) == {i \in 1..Len(todos) : todos[i].id # id}

kthKept(todos, id, k) ==
    CHOOSE i \in keptPositions(todos, id) :
        Cardinality({j \in keptPositions(todos, id) : j <= i}) = k

\* C28: in every id-keyed store the list after removeTodo(id) is exactly the
\* subsequence of the previous list made of the entries whose id differs
\* from the argument: every entry carrying the id is gone, no other entry is
\* gone, and the entries left keep their relative order and their contents.
C28_RemoveIsSubsequence ==
    last.op = "removeTodo"
        => /\ Len(CurTodos) = Cardinality(keptPositions(PreTodos, last.arg))
           /\ \A k \in 1..Len(CurTodos) :
                 CurTodos[k] = PreTodos[kthKept(PreTodos, last.arg, k)]
           /\ ~HasId(CurTodos, last.arg)

C28_Witness ==
    /\ last.op = "removeTodo"
    /\ Len(PreTodos) = 2
    /\ PreTodos[1].id = last.arg
    /\ PreTodos[2].id # last.arg
    /\ CurTodos = <<PreTodos[2]>>

---------------------------------------------------------------------------
\* The stores called directly, without a screen in front of them: addTodo
\* receives whatever text the caller passes, blank texts included.
InitDirect == InitFor(Screens \cup DocStores) /\ Quiet

AddTodoDirect ==
    /\ mounted
    /\ CanSet(persist)
    /\ nAdd < MaxAdd
    /\ \E text \in Inputs :
        /\ store' = applySet(persist, store, onAddTodo(screen, store, text))
        /\ persist' = afterSet(persist, store')
        /\ last' = [op |-> "addTodo", arg |-> text, id |-> toString(DateNow),
                    pre |-> store]
        /\ scen' = ScenNext(scen, "addTodo", text, toString(DateNow))
    /\ nAdd' = nAdd + 1
    /\ todosObj' = nextTodosObj(todosObj, arrayEffect(screen, "addTodo"))
    /\ seen' = nextSeen(screen, "addTodo", store, store')
    /\ view' = nextView(screen, "addTodo", store, store')
    /\ UNCHANGED <<screen, now, nInc, nDec, nRem, nMiss>>
    /\ UNCHANGED idle

NextDirect == Increment \/ Decrement \/ AddTodoDirect \/ RemoveTodo \/ Tick

SpecDirect == InitDirect /\ [][NextDirect]_vars

\* The entry a store appends for the text: {id, text} in the id-keyed stores,
\* the text itself in the index-keyed ones.
entryFor(s, id, text) ==
    IF s \in DocStores THEN <<text>> ELSE <<[id |-> id, text |-> text]>>

\* C29: the stores do not validate the text: addTodo called directly on a
\* store with an empty or whitespace-only text appends an entry with that
\* text, exactly as for any other text, in every variant.
C29_StoresAppendAnyText ==
    last.op = "addTodo"
        => CurTodos = PreTodos \o entryFor(screen, last.id, last.arg)

C29_Witness ==
    /\ last.op = "addTodo"
    /\ last.arg = " \t"
    /\ trim(last.arg) = ""
    /\ Len(PreTodos) = 1
    /\ screen \in Screens
    /\ PreTodos[1].text = ""
    /\ CurTodos[2].text = " \t"

====
